---------------------------- MODULE Spec2Model ----------------------------
(***************************************************************************)
(* Model of the chat-turn pipeline of the Arogya Mitra API (src/main.py):  *)
(* the POST /api/chat handler `chat`, its helper `get_or_create_user`, the *)
(* safety keyword check, and the storage / AI collaborators the handler    *)
(* awaits.  Every `await` of the handler is one atomic step of a turn, so  *)
(* turns of concurrent requests interleave exactly at the awaits, as they  *)
(* do on the asyncio event loop.                                           *)
(*                                                                         *)
(* Texts are TLA+ strings; strip, lower and the `in` substring test are    *)
(* computed character by character.                                        *)
(***************************************************************************)
EXTENDS Integers, Sequences, FiniteSets, TLC

\* Number of chat requests the model lets arrive (they may overlap).
MaxTurns == 2

Turns == 1..MaxTurns

VARIABLES
    users,              \* storage: stored identifier -> User row
    chat_log,           \* storage: the append-only ChatMessage log
    log_turn,           \* ghost: log_turn[i] is the turn that wrote chat_log[i] (0: before start)
    pc,                 \* per turn: the await the handler is suspended at
    payload,            \* per turn: the ChatRequest as received
    user_id,            \* per turn: local user_id (trimmed)
    message,            \* per turn: local message (trimmed)
    user_profile,       \* per turn: local user_profile
    history,            \* per turn: local history
    ai_response_text,   \* per turn: local ai_response_text
    outcome,            \* per turn: how the request ended
    response,           \* per turn: ChatResponse.response handed to the caller
    calls               \* ghost: per turn, the collaborator calls it made, in order

vars == <<users, chat_log, log_turn, pc, payload, user_id, message, user_profile,
          history, ai_response_text, outcome, response, calls>>

---------------------------------------------------------------------------
(* Safety configuration *)

CRITICAL_KEYWORDS ==
    << "suicide", "kill myself", "want to die", "heart attack", "chest pain",
       "can't breathe", "unconscious", "poison", "accident", "bleeding heavily" >>

CRITICAL_RESPONSE_MESSAGE ==
    "This seems like a critical situation. Please contact emergency services immediately by calling 108. This is an AI assistant and not a substitute for a medical professional."

---------------------------------------------------------------------------
(* str.strip, str.lower and the substring test `k in s` *)

IsSpace(c) == c \in {" ", "\t", "\n", "\r"}

RECURSIVE lstrip(_)
lstrip(s) ==
    IF Len(s) > 0 /\ IsSpace(SubSeq(s, 1, 1))
    THEN lstrip(SubSeq(s, 2, Len(s)))
    ELSE s

RECURSIVE rstrip(_)
rstrip(s) ==
    IF Len(s) > 0 /\ IsSpace(SubSeq(s, Len(s), Len(s)))
    THEN rstrip(SubSeq(s, 1, Len(s) - 1))
    ELSE s

strip(s) == rstrip(lstrip(s))

LowerChar(c) ==
    CASE c = "A" -> "a" [] c = "B" -> "b" [] c = "C" -> "c" [] c = "D" -> "d"
      [] c = "E" -> "e" [] c = "F" -> "f" [] c = "G" -> "g" [] c = "H" -> "h"
      [] c = "I" -> "i" [] c = "J" -> "j" [] c = "K" -> "k" [] c = "L" -> "l"
      [] c = "M" -> "m" [] c = "N" -> "n" [] c = "O" -> "o" [] c = "P" -> "p"
      [] c = "Q" -> "q" [] c = "R" -> "r" [] c = "S" -> "s" [] c = "T" -> "t"
      [] c = "U" -> "u" [] c = "V" -> "v" [] c = "W" -> "w" [] c = "X" -> "x"
      [] c = "Y" -> "y" [] c = "Z" -> "z" [] OTHER -> c

RECURSIVE lower(_)
lower(s) ==
    IF Len(s) = 0 THEN s
    ELSE LowerChar(SubSeq(s, 1, 1)) \o lower(SubSeq(s, 2, Len(s)))

\* k in s
Contains(k, s) ==
    \E i \in 1..(Len(s) - Len(k) + 1) : SubSeq(s, i, i + Len(k) - 1) = k

---------------------------------------------------------------------------
(* Requests the model lets arrive: raw ChatRequest fields, untrimmed *)

RawUserIds == {"u1", " u2\n", ""}

RawMessages ==
    { "I have Chest Pain\n", "  What foods help with diabetes? ", " \t " }

Payloads == [user_id : RawUserIds, message : RawMessages]

\* What get_ai_response may return when it does not fail.
AIResponses == {"Try more fiber."}

---------------------------------------------------------------------------
(* Records *)

\* Variant: the new User is built without the identifier.
NewUser_NoIdentifier(uid) == [phone_number |-> "", attrs |-> "default"]

\* User(phone_number=user_id): only the identifier, every other field default.
NewUser(uid) == [phone_number |-> uid, attrs |-> "default"]

\* A User row that was stored, with profile attributes, before the model starts.
StoredUser(uid) == [phone_number |-> uid, attrs |-> "stored"]

ChatMessage(uid, who, text) ==
    [phone_number |-> uid, sender |-> who, message_text |-> text]

\* Values of locals that are not assigned yet.
Unset == "<unset>"
NoProfile == [phone_number |-> Unset, attrs |-> Unset]
NoResponse == "<none>"

\* One collaborator call as a recording stub sees it: the operation, its
\* argument, whether it returned (ok) or raised, and what it returned.
Call(o, a, k, r) == [op |-> o, arg |-> a, ok |-> k, ret |-> r]

---------------------------------------------------------------------------
(* Storage collaborator (DatabaseService), as section 6 of the design      *)
(* describes it; its code is not part of the modelled sources.             *)

\* Size of the window of most recent messages get_chat_history returns.
HistoryWindow == 2

\* get_user(id) -> User | absent, as a set of at most one row.
get_user(uid) == IF uid \in DOMAIN users THEN {users[uid]} ELSE {}

\* create_or_update_user(User): upsert keyed by the identifier.
create_or_update_user(user) ==
    [x \in DOMAIN users \cup {user.phone_number} |->
        IF x = user.phone_number THEN user ELSE users[x]]

MessagesOf(uid, msgs) == SelectSeq(msgs, LAMBDA m : m.phone_number = uid)

LastN(s, n) == IF Len(s) <= n THEN s ELSE SubSeq(s, Len(s) - n + 1, Len(s))

\* get_chat_history(id): the most recent window for id, oldest first.
get_chat_history(uid) == LastN(MessagesOf(uid, chat_log), HistoryWindow)

\* save_chat_message(ChatMessage): append to the log.
save_chat_message(m) == Append(chat_log, m)

---------------------------------------------------------------------------
(* The pieces of `chat` and `get_or_create_user` *)

\* Variant: only the identifier is validated.
ValidationDetail_IdOnly(uid, msg) ==
    IF uid = "" THEN "user_id is required." ELSE ""

\* if not user_id / if not message: the detail of the HTTPException, "" if none.
ValidationDetail(uid, msg) ==
    IF uid = "" THEN "user_id is required."
    ELSE IF msg = "" THEN "message cannot be empty."
    ELSE ""

\* Variant: the keyword check without .lower().
AnyCriticalKeyword_CaseSensitive(msg) ==
    \E i \in DOMAIN CRITICAL_KEYWORDS : Contains(CRITICAL_KEYWORDS[i], msg)

\* any(k in message.lower() for k in CRITICAL_KEYWORDS)
AnyCriticalKeyword(msg) ==
    \E i \in DOMAIN CRITICAL_KEYWORDS : Contains(CRITICAL_KEYWORDS[i], lower(msg))

\* Variant: the looked-up row is ignored, a User is always created.
Found_Never(existing) == FALSE

\* if existing:
Found(existing) == existing # {}

\* Variant: the history is asked for the untrimmed payload.user_id.
HistoryKey_Raw(t) == payload[t].user_id

\* The identifier get_chat_history is asked for.
HistoryKey(t) == user_id[t]

\* chat_history=history
ChatHistoryArg(t) == history[t]

\* Variant: the user message is saved untrimmed, as payload.message.
UserChatMessage_Untrimmed(t) == ChatMessage(user_id[t], "user", payload[t].message)

\* ChatMessage(phone_number=user_id, sender="user", message_text=message)
UserChatMessage(t) == ChatMessage(user_id[t], "user", message[t])

\* Variant: the response is saved with the sender tag of the user.
BotChatMessage_AsUser(t) == ChatMessage(user_id[t], "user", ai_response_text[t])

\* ChatMessage(phone_number=user_id, sender="bot", message_text=ai_response_text)
BotChatMessage(t) == ChatMessage(user_id[t], "bot", ai_response_text[t])

\* How a turn goes on: where the handler is next and how the request ended.
\* HTTPException(status_code=400, detail=...)
Rejected(detail) == [pc |-> "done", outcome |-> "400: " \o detail]

\* Variant: a failed resolution or generation is swallowed and the turn goes
\* on to persistence.
Raised_Fallback == [pc |-> "save_user", outcome |-> "pending"]

\* An exception of get_or_create_user, get_chat_history or get_ai_response is
\* not caught in chat: it leaves the handler (a server error).
Raised == [pc |-> "done", outcome |-> "500"]

\* Variant: each save has a try of its own, the second save is still made.
UserSaveFailed_Continues == [pc |-> "save_bot", outcome |-> "pending"]

\* An exception of the first save_chat_message: the except clause logs it,
\* the second save is skipped, the handler returns.
UserSaveFailed == [pc |-> "done", outcome |-> "ok"]

\* Variant: no except clause, the save's exception leaves the handler.
BotSaveFailed_Raises == [pc |-> "done", outcome |-> "500"]

\* An exception of the second save_chat_message: logged, the handler returns.
BotSaveFailed == [pc |-> "done", outcome |-> "ok"]

\* Both saves done: return ChatResponse(response=ai_response_text)
Returned == [pc |-> "done", outcome |-> "ok"]

\* return ChatResponse(response=ai_response_text)
ChatResponse(t) == ai_response_text[t]

\* The turn moves on as k says; a turn that returns hands out its response.
Goto(t, k) ==
    /\ pc' = [pc EXCEPT ![t] = k.pc]
    /\ outcome' = [outcome EXCEPT ![t] = k.outcome]
    /\ response' = [response EXCEPT ![t] =
                        IF k.outcome = "ok" THEN ChatResponse(t) ELSE NoResponse]

Record(t, c) == calls' = [calls EXCEPT ![t] = Append(@, c)]

---------------------------------------------------------------------------
(* Initial state: the process has started, no request has arrived.  The    *)
(* store outlives the process: identifier u1 was seen before (a stored     *)
(* profile and one earlier exchange), u2 never.                            *)

InitUsers == [x \in {"u1"} |-> StoredUser(x)]

InitLog ==
    << ChatMessage("u1", "user", "hi"), ChatMessage("u1", "bot", "Hello.") >>

Init ==
    /\ users = InitUsers
    /\ chat_log = InitLog
    /\ log_turn = <<0, 0>>
    /\ pc = [t \in Turns |-> "idle"]
    /\ payload = [t \in Turns |-> [user_id |-> Unset, message |-> Unset]]
    /\ user_id = [t \in Turns |-> Unset]
    /\ message = [t \in Turns |-> Unset]
    /\ user_profile = [t \in Turns |-> NoProfile]
    /\ history = [t \in Turns |-> <<>>]
    /\ ai_response_text = [t \in Turns |-> Unset]
    /\ outcome = [t \in Turns |-> "pending"]
    /\ response = [t \in Turns |-> NoResponse]
    /\ calls = [t \in Turns |-> <<>>]

---------------------------------------------------------------------------
(* chat, from its entry to its first await: trim, validate, keyword check. *)
(* Requests are numbered in the order they arrive.                         *)

Chat(t) ==
    /\ pc[t] = "idle"
    /\ IF t = 1 THEN TRUE ELSE pc[t - 1] # "idle"
    /\ \E p \in Payloads :
        LET uid == strip(p.user_id)
            msg == strip(p.message)
            detail == ValidationDetail(uid, msg)
        IN  /\ payload' = [payload EXCEPT ![t] = p]
            /\ user_id' = [user_id EXCEPT ![t] = uid]
            /\ message' = [message EXCEPT ![t] = msg]
            /\ IF detail # ""
               THEN /\ Goto(t, Rejected(detail))
                    /\ UNCHANGED ai_response_text
               ELSE IF AnyCriticalKeyword(msg)
               THEN /\ ai_response_text' =
                            [ai_response_text EXCEPT ![t] = CRITICAL_RESPONSE_MESSAGE]
                    /\ Goto(t, [pc |-> "save_user", outcome |-> "pending"])
               ELSE /\ Goto(t, [pc |-> "get_user", outcome |-> "pending"])
                    /\ UNCHANGED ai_response_text
    /\ UNCHANGED <<users, chat_log, log_turn, user_profile, history, calls>>

(* get_or_create_user: await db_service.get_user(user_id) *)
GetUser(t) ==
    /\ pc[t] = "get_user"
    /\ \/ /\ Record(t, Call("get_user", user_id[t], FALSE, {}))
          /\ Goto(t, Raised)
          /\ UNCHANGED user_profile
       \/ LET existing == get_user(user_id[t])
          IN  /\ Record(t, Call("get_user", user_id[t], TRUE, existing))
              /\ IF Found(existing)
                 THEN /\ user_profile' =
                            [user_profile EXCEPT ![t] = CHOOSE u \in existing : TRUE]
                      /\ Goto(t, [pc |-> "get_chat_history", outcome |-> "pending"])
                 ELSE /\ user_profile' = [user_profile EXCEPT ![t] = NewUser(user_id[t])]
                      /\ Goto(t, [pc |-> "create_or_update_user", outcome |-> "pending"])
    /\ UNCHANGED <<users, chat_log, log_turn, payload, user_id, message, history,
                   ai_response_text>>

(* get_or_create_user: await db_service.create_or_update_user(user) *)
CreateUser(t) ==
    /\ pc[t] = "create_or_update_user"
    /\ \/ /\ Record(t, Call("create_or_update_user", user_profile[t], FALSE, {}))
          /\ Goto(t, Raised)
          /\ UNCHANGED users
       \/ /\ Record(t, Call("create_or_update_user", user_profile[t], TRUE, {}))
          /\ users' = create_or_update_user(user_profile[t])
          /\ Goto(t, [pc |-> "get_chat_history", outcome |-> "pending"])
    /\ UNCHANGED <<chat_log, log_turn, payload, user_id, message, user_profile, history,
                   ai_response_text>>

(* history = await db_service.get_chat_history(user_id) *)
GetChatHistory(t) ==
    /\ pc[t] = "get_chat_history"
    /\ \/ /\ Record(t, Call("get_chat_history", HistoryKey(t), FALSE, <<>>))
          /\ Goto(t, Raised)
          /\ UNCHANGED history
       \/ LET h == get_chat_history(HistoryKey(t))
          IN  /\ Record(t, Call("get_chat_history", HistoryKey(t), TRUE, h))
              /\ history' = [history EXCEPT ![t] = h]
              /\ Goto(t, [pc |-> "get_ai_response", outcome |-> "pending"])
    /\ UNCHANGED <<users, chat_log, log_turn, payload, user_id, message, user_profile,
                   ai_response_text>>

(* ai_response_text = await gemini_service.get_ai_response(...) *)
GetAiResponse(t) ==
    /\ pc[t] = "get_ai_response"
    /\ LET args == [user_message |-> message[t], user_profile |-> user_profile[t],
                    chat_history |-> ChatHistoryArg(t)]
       IN  \/ /\ Record(t, Call("get_ai_response", args, FALSE, Unset))
              /\ Goto(t, Raised)
              /\ UNCHANGED ai_response_text
           \/ \E r \in AIResponses :
                /\ Record(t, Call("get_ai_response", args, TRUE, r))
                /\ ai_response_text' = [ai_response_text EXCEPT ![t] = r]
                /\ Goto(t, [pc |-> "save_user", outcome |-> "pending"])
    /\ UNCHANGED <<users, chat_log, log_turn, payload, user_id, message, user_profile,
                   history>>

(* try: await db_service.save_chat_message(ChatMessage(... sender="user" ...)) *)
SaveUserMessage(t) ==
    /\ pc[t] = "save_user"
    /\ \/ /\ Record(t, Call("save_chat_message", UserChatMessage(t), FALSE, {}))
          /\ Goto(t, UserSaveFailed)
          /\ UNCHANGED <<chat_log, log_turn>>
       \/ /\ Record(t, Call("save_chat_message", UserChatMessage(t), TRUE, {}))
          /\ chat_log' = save_chat_message(UserChatMessage(t))
          /\ log_turn' = Append(log_turn, t)
          /\ Goto(t, [pc |-> "save_bot", outcome |-> "pending"])
    /\ UNCHANGED <<users, payload, user_id, message, user_profile, history,
                   ai_response_text>>

(* await db_service.save_chat_message(ChatMessage(... sender="bot" ...));  *)
(* except Exception: logger.error(...); return ChatResponse(...)           *)
SaveBotMessage(t) ==
    /\ pc[t] = "save_bot"
    /\ \/ /\ Record(t, Call("save_chat_message", BotChatMessage(t), FALSE, {}))
          /\ Goto(t, BotSaveFailed)
          /\ UNCHANGED <<chat_log, log_turn>>
       \/ /\ Record(t, Call("save_chat_message", BotChatMessage(t), TRUE, {}))
          /\ chat_log' = save_chat_message(BotChatMessage(t))
          /\ log_turn' = Append(log_turn, t)
          /\ Goto(t, Returned)
    /\ UNCHANGED <<users, payload, user_id, message, user_profile, history,
                   ai_response_text>>

Next ==
    \E t \in Turns :
        \/ Chat(t)
        \/ GetUser(t)
        \/ CreateUser(t)
        \/ GetChatHistory(t)
        \/ GetAiResponse(t)
        \/ SaveUserMessage(t)
        \/ SaveBotMessage(t)

Spec == Init /\ [][Next]_vars

---------------------------------------------------------------------------
(* Vocabulary of the properties: what a recording stub of the collaborators *)
(* and a reader of the store can observe.                                   *)

CallsOf(t, o) == SelectSeq(calls[t], LAMBDA c : c.op = o)

Saves(t) == CallsOf(t, "save_chat_message")

FailedCall(t, ops) ==
    \E i \in DOMAIN calls[t] : calls[t][i].op \in ops /\ ~calls[t][i].ok

\* strip of every text a request field can hold (and of the unassigned value),
\* tabulated.
Trimmed == [s \in RawUserIds \cup RawMessages \cup {Unset} |-> strip(s)]

\* Whether the lower-cased text contains a configured crisis phrase, tabulated.
HasCrisisPhrase ==
    [s \in RawMessages \cup {Unset} |->
        \E i \in DOMAIN CRITICAL_KEYWORDS : Contains(CRITICAL_KEYWORDS[i], lower(s))]

\* The trimmed fields of the request, recomputed from the payload.
TrimmedId(t) == Trimmed[payload[t].user_id]
TrimmedMessage(t) == Trimmed[payload[t].message]

\* The response text the turn computed: what get_ai_response returned to it,
\* or the fixed safety message when it made no AI call.
Computed(t) ==
    LET ai == SelectSeq(calls[t], LAMBDA c : c.op = "get_ai_response" /\ c.ok)
    IN  IF Len(ai) > 0 THEN ai[1].ret ELSE CRITICAL_RESPONSE_MESSAGE

\* The positions of the log that turn t wrote.
WrittenBy(t) == {i \in DOMAIN chat_log : log_turn[i] = t}

---------------------------------------------------------------------------
\* C1: a turn whose trimmed identifier and message are non-empty and whose
\* lower-cased message contains a configured crisis phrase makes no get_user,
\* create_or_update_user, get_chat_history or get_ai_response call, and once
\* it has ended it has returned exactly the fixed safety message.
C1_CriticalBypass ==
    \A t \in Turns :
        ( /\ pc[t] # "idle"
          /\ TrimmedId(t) # ""
          /\ TrimmedMessage(t) # ""
          /\ HasCrisisPhrase[payload[t].message] )
        => /\ \A i \in DOMAIN calls[t] : calls[t][i].op = "save_chat_message"
           /\ pc[t] = "done" =>
                outcome[t] = "ok" /\ response[t] = CRITICAL_RESPONSE_MESSAGE

C1_Witness ==
    \E t \in Turns :
        /\ pc[t] = "done"
        /\ payload[t].message = "I have Chest Pain\n"
        /\ TrimmedId(t) = "u2"
        /\ response[t] = CRITICAL_RESPONSE_MESSAGE

\* C2: a request whose identifier or message is empty after trimming ends at
\* once in a validation error (HTTP 400) with no response text, makes no
\* collaborator call, and leaves the user store and the message log as they
\* were; a turn that has ended makes no call afterwards.
C2_ValidationRejects ==
    [][\A t \in Turns :
        /\ ( /\ pc[t] = "idle"
             /\ pc'[t] # "idle"
             /\ Trimmed[payload'[t].user_id] = "" \/ Trimmed[payload'[t].message] = "" )
           => /\ pc'[t] = "done"
              /\ outcome'[t] \in {"400: user_id is required.",
                                  "400: message cannot be empty."}
              /\ response'[t] = NoResponse
              /\ calls'[t] = <<>>
              /\ users' = users
              /\ chat_log' = chat_log
        /\ pc[t] = "done" => pc'[t] = "done" /\ calls'[t] = calls[t]
      ]_vars

C2_Witness ==
    \E t \in Turns :
        /\ pc[t] = "done"
        /\ payload[t].message = " \t "
        /\ TrimmedId(t) # ""
        /\ outcome[t] = "400: message cannot be empty."
        /\ calls[t] = <<>>

\* C3: a turn one of whose save_chat_message calls failed has ended, has
\* ended without an error, and has returned exactly the response text it
\* computed (the AI collaborator's return value or the safety message).
C3_BestEffortPersistence ==
    \A t \in Turns :
        FailedCall(t, {"save_chat_message"})
        => /\ pc[t] = "done"
           /\ outcome[t] = "ok"
           /\ response[t] = Computed(t)

C3_Witness ==
    \E t \in Turns :
        /\ Len(Saves(t)) = 2
        /\ ~Saves(t)[2].ok
        /\ response[t] = "Try more fiber."

---------------------------------------------------------------------------
\* The user messages the property C4 speaks of: position i of the log holds
\* the user message of a turn that has ended and none of whose saves failed.
SettledUserMessage(i) ==
    /\ log_turn[i] \in Turns
    /\ chat_log[i].sender = "user"
    /\ pc[log_turn[i]] = "done"
    /\ ~FailedCall(log_turn[i], {"save_chat_message"})

\* The positions after i that hold a message of the same identifier.
LaterSameId(i) ==
    {j \in DOMAIN chat_log : j > i /\ chat_log[j].phone_number = chat_log[i].phone_number}

Least(S) == CHOOSE j \in S : \A k \in S : j <= k

BotMessagesOf(t) == {j \in WrittenBy(t) : chat_log[j].sender = "bot"}

\* C4 as stated: in the log of an identifier, the user message of every ended
\* turn without a failed save is immediately followed by the one bot message
\* of the same turn, also when turns of that identifier run concurrently.
C4_Original ==
    \A i \in DOMAIN chat_log :
        SettledUserMessage(i)
        => /\ Cardinality(BotMessagesOf(log_turn[i])) = 1
           /\ LaterSameId(i) # {}
           /\ Least(LaterSameId(i)) \in BotMessagesOf(log_turn[i])

\* C4 as amended: the user message of every ended turn without a failed save
\* is followed in the log by exactly one bot message of the same turn, and
\* every message of that identifier written between the two was written by
\* another turn (the two saves are not atomic as a pair); a turn writes at
\* most one user message.
C4_Amended ==
    \A i \in DOMAIN chat_log :
        SettledUserMessage(i)
        => LET t == log_turn[i]
           IN  /\ Cardinality(BotMessagesOf(t)) = 1
               /\ Cardinality(WrittenBy(t)) = 2
               /\ \A j \in BotMessagesOf(t) :
                    /\ j > i
                    /\ chat_log[j] = ChatMessage(chat_log[i].phone_number, "bot", response[t])
                    /\ \A k \in LaterSameId(i) : k < j => log_turn[k] # t

\* The saves of two turns of one identifier have interleaved.
C4_Witness ==
    \E i \in DOMAIN chat_log :
        /\ SettledUserMessage(i)
        /\ LaterSameId(i) # {}
        /\ log_turn[Least(LaterSameId(i))] # log_turn[i]
        /\ pc[log_turn[Least(LaterSameId(i))]] = "done"

\* C5: of every turn, critical or not, the saves are at most two; the first
\* is the user message (sender user, the trimmed identifier, the trimmed
\* message); a second one is issued only after the first has returned and is
\* the bot message (sender bot, the same identifier, the computed response);
\* a turn that returns a response has issued the user-message save.
C5_UserSavedBeforeBot ==
    \A t \in Turns :
        LET s == Saves(t)
        IN  /\ Len(s) <= 2
            /\ Len(s) >= 1 =>
                 s[1].arg = ChatMessage(TrimmedId(t), "user", TrimmedMessage(t))
            /\ Len(s) = 2 =>
                 /\ s[1].ok
                 /\ s[2].arg = ChatMessage(TrimmedId(t), "bot", Computed(t))
            /\ outcome[t] = "ok" => Len(s) >= 1
            /\ \A i, j \in WrittenBy(t) :
                 (chat_log[i].sender = "user" /\ chat_log[j].sender = "bot") => i < j

C5_Witness ==
    \E t \in Turns :
        /\ Len(Saves(t)) = 2
        /\ Saves(t)[2].ok
        /\ Saves(t)[2].arg.message_text = CRITICAL_RESPONSE_MESSAGE

---------------------------------------------------------------------------
\* The messages of identifier uid among the first n of the log.
PersistedBy(n, uid) == MessagesOf(uid, SubSeq(chat_log, 1, n))

\* C6 as stated: the history handed to get_ai_response is exactly the messages
\* persisted for the turn's identifier at a moment before the turn's own
\* writes, all of them, oldest first.
C6_Original ==
    \A t \in Turns : \A c \in DOMAIN calls[t] :
        calls[t][c].op = "get_ai_response"
        => \E n \in 0..Len(chat_log) :
              /\ \A i \in WrittenBy(t) : i > n
              /\ calls[t][c].arg.chat_history = PersistedBy(n, TrimmedId(t))

\* C6 as amended: the history handed to get_ai_response is what the turn's
\* get_chat_history call returned: the window of the most recent messages
\* persisted for the turn's identifier at a moment before the turn's own
\* writes, oldest first; it holds no message of the turn in flight.
C6_Amended ==
    \A t \in Turns : \A c \in DOMAIN calls[t] :
        calls[t][c].op = "get_ai_response"
        => /\ c > 1
           /\ calls[t][c - 1].op = "get_chat_history"
           /\ calls[t][c - 1].arg = TrimmedId(t)
           /\ calls[t][c].arg.chat_history = calls[t][c - 1].ret
           /\ \E n \in 0..Len(chat_log) :
                /\ \A i \in WrittenBy(t) : i > n
                /\ calls[t][c].arg.chat_history =
                       LastN(PersistedBy(n, TrimmedId(t)), HistoryWindow)

\* A turn was handed a history from which the window had cut older messages.
C6_Witness ==
    \E t \in Turns : \E c \in DOMAIN calls[t] :
        /\ calls[t][c].op = "get_ai_response"
        /\ Len(calls[t][c].arg.chat_history) = HistoryWindow
        /\ calls[t][c].arg.chat_history # InitLog
        /\ Cardinality(WrittenBy(t)) = 2

---------------------------------------------------------------------------
\* C7: a turn whose get_user, create_or_update_user or get_ai_response call
\* failed has ended in an error, has returned no response text, has issued no
\* save_chat_message, and no message of it is in the log.
C7_ResolutionOrGenerationFailureIsFatal ==
    \A t \in Turns :
        FailedCall(t, {"get_user", "create_or_update_user", "get_ai_response"})
        => /\ pc[t] = "done"
           /\ outcome[t] = "500"
           /\ response[t] = NoResponse
           /\ Saves(t) = <<>>
           /\ WrittenBy(t) = {}

C7_Witness ==
    \E t \in Turns :
        /\ pc[t] = "done"
        /\ FailedCall(t, {"get_ai_response"})
        /\ Len(calls[t]) = 4

\* C8: in a turn whose get_user found no stored User, the next call is
\* create_or_update_user with a User carrying only the turn's (trimmed)
\* identifier, and a get_ai_response call of that turn comes after that call
\* has returned and is handed that same User as the profile.
C8_UserCreatedBeforeGeneration ==
    \A t \in Turns : \A g \in DOMAIN calls[t] :
        (calls[t][g].op = "get_user" /\ calls[t][g].ok /\ calls[t][g].ret = {})
        => /\ g < Len(calls[t]) =>
                /\ calls[t][g + 1].op = "create_or_update_user"
                /\ calls[t][g + 1].arg =
                        [phone_number |-> TrimmedId(t), attrs |-> "default"]
           /\ \A a \in DOMAIN calls[t] :
                calls[t][a].op = "get_ai_response"
                => /\ a > g + 1
                   /\ calls[t][g + 1].ok
                   /\ calls[t][a].arg.user_profile =
                        [phone_number |-> TrimmedId(t), attrs |-> "default"]
           /\ pc[t] # "create_or_update_user" => g < Len(calls[t])

C8_Witness ==
    \E t \in Turns :
        /\ TrimmedId(t) = "u2"
        /\ Len(CallsOf(t, "create_or_update_user")) = 1
        /\ Len(CallsOf(t, "get_ai_response")) = 1
        /\ CallsOf(t, "get_ai_response")[1].ok

---------------------------------------------------------------------------
\* Turn t issues create_or_update_user in this step.
IssuesCreate(t) ==
    /\ Len(calls'[t]) = Len(calls[t]) + 1
    /\ calls'[t][Len(calls'[t])].op = "create_or_update_user"

\* C9 as stated: create_or_update_user is never issued for an identifier that
\* has a stored User at the moment of the write.
C9_Original ==
    [][\A t \in Turns : IssuesCreate(t) => user_id[t] \notin DOMAIN users]_vars

\* C9 as amended: create_or_update_user is issued by a turn only right after
\* that turn's own get_user found no stored User for its identifier; when
\* another turn has stored one in between, the write stores the same
\* identifier-only User again (last write wins), so no step removes a stored
\* User or changes what is stored for an identifier.
C9_Amended ==
    [][/\ \A t \in Turns :
            IssuesCreate(t)
            => /\ calls[t] # <<>>
               /\ calls[t][Len(calls[t])].op = "get_user"
               /\ calls[t][Len(calls[t])].ok
               /\ calls[t][Len(calls[t])].ret = {}
               /\ calls[t][Len(calls[t])].arg = user_id[t]
       /\ \A uid \in DOMAIN users : uid \in DOMAIN users' /\ users'[uid] = users[uid]
      ]_vars

\* Two turns of one identifier have both created its User: the second write
\* found the first one's row stored.
C9_Witness ==
    \E t1, t2 \in Turns :
        /\ t1 # t2
        /\ user_id[t1] = user_id[t2]
        /\ \E c \in DOMAIN calls[t1] :
              calls[t1][c].op = "create_or_update_user" /\ calls[t1][c].ok
        /\ \E c \in DOMAIN calls[t2] :
              calls[t2][c].op = "create_or_update_user" /\ calls[t2][c].ok

\* C10: a bot message of a turn is in the log only after the user message of
\* the same turn; a turn whose user-message save failed issues no second save.
C10_NoBotMessageWithoutUserMessage ==
    \A t \in Turns :
        /\ \A j \in BotMessagesOf(t) :
              \E i \in WrittenBy(t) : i < j /\ chat_log[i].sender = "user"
        /\ (Len(Saves(t)) >= 1 /\ ~Saves(t)[1].ok) =>
              Len(Saves(t)) = 1 /\ WrittenBy(t) = {}

C10_Witness ==
    \E t \in Turns :
        /\ pc[t] = "done"
        /\ Len(Saves(t)) = 1
        /\ ~Saves(t)[1].ok
        /\ response[t] \in AIResponses

====
